---- MODULE Spec2Model ----
(***************************************************************************)
(* Model of RazorpayProviderService (src/src/modules/razorpay/service.ts). *)
(*                                                                         *)
(* The service is stateless apart from its options; the state of the       *)
(* model is the service's options, the remote gateway the service talks to *)
(* through client_, the session data the calling platform hands back on    *)
(* every call, and a record of the last handler invocation (its input, the *)
(* gateway calls it issued, and how it completed).                         *)
(***************************************************************************)
EXTENDS Integers, Sequences, FiniteSets, TLC

(* ---------------------------------------------------------------- bounds *)

\* Number of orders the gateway accepts before the model stops creating more.
MaxOrders == 2

(* ------------------------------------------------------- JavaScript values *)

\* The JavaScript value undefined (a missing property). It is not a string
\* of the program: no input set below contains it as a real value.
Undefined == "<undefined>"

\* JavaScript truthiness of a string-or-undefined value: undefined and the
\* empty string are falsy.
Truthy(v) == v # Undefined /\ v # ""

\* Template-literal conversion `${v}`.
Str(v) == IF v = Undefined THEN "undefined" ELSE v

\* A JavaScript number given in major currency units: a finite value held
\* in thousandths, or one of the non-finite values.
Num(milli) == [kind |-> "num", milli |-> milli]
NaN == [kind |-> "NaN", milli |-> 0]
Infinity == [kind |-> "Infinity", milli |-> 0]

\* An integer of minor units as the gateway receives it: an integer or NaN.
Minor(n) == [nan |-> FALSE, val |-> n]
MinorNaN == [nan |-> TRUE, val |-> 0]

\* The amount slot of a gateway call that carries no amount.
NoAmount == [nan |-> TRUE, val |-> -1]

\* Variant of toMinorUnits without the multiplication by 100.
toMinorUnits_unscaled(amount) ==
    IF amount.kind # "num" THEN MinorNaN
    ELSE LET a == IF amount.milli < 0 THEN -amount.milli ELSE amount.milli
             r == (a + 500) \div 1000
         IN Minor(IF amount.milli < 0 THEN -r ELSE r)

\* parseInt((amount * 100).toFixed(0)): toFixed(0) rounds to the nearest
\* integer, ties away from zero; a non-finite product prints as "NaN" or
\* "Infinity", which parseInt turns into NaN.
toMinorUnits(amount) ==
    IF amount.kind # "num" THEN MinorNaN
    ELSE LET a == IF amount.milli < 0 THEN -amount.milli ELSE amount.milli
             r == (a + 5) \div 10
         IN Minor(IF amount.milli < 0 THEN -r ELSE r)

(* ------------------------------------------------------------- signatures *)

\* crypto.createHmac("sha256", key).update(payload).digest("hex"): a value
\* determined by key and payload and different for different pairs.
Hmac(key, payload) == "hmac(" \o key \o "," \o payload \o ")"

\* options_.key_secret: required by validateOptions, so always set.
key_secret == "key_secret"

\* The secret the gateway signs webhooks with when one is configured.
WebhookSecret == "whsec"

(* ------------------------------------------------------------------ state *)

VARIABLES
    webhook_secret,  \* options_.webhook_secret: a secret, or Undefined when unset
    gwOrders,        \* gateway: number of orders created so far
    gwPay,           \* gateway: the payment record of the customer's payment
    session,         \* the session data the platform stores and passes in as input.data
    input,           \* the input of the last handler invocation
    calls,           \* the gateway calls the last handler invocation issued, in order
    result           \* how the last handler invocation completed

vars == <<webhook_secret, gwOrders, gwPay, session, input, calls, result>>

\* Identifier the gateway gives its n-th order.
OrderId(n) == "order_" \o ToString(n)

\* The gateway's payment identifier, and one the gateway does not know.
PaymentId == "pay_1"
UnknownPaymentId == "pay_x"

\* A missing payment record (data.payment_details absent).
NoRecord == [id |-> Undefined, status |-> Undefined, amount |-> 0, order_id |-> Undefined]

\* Statuses the gateway reports for a payment; "none" is the model's mark
\* for a payment that does not exist yet and is never returned.
PaymentStatuses == {"created", "authorized", "captured", "refunded", "failed"}

\* The minor-unit amount of the payment the customer makes against the
\* n-th order, as the gateway reports it in the payment record.
PaymentAmount(n) == IF n = 1 THEN 49900 ELSE 1050

\* A gateway call as recorded in calls: the request, whether the gateway
\* answered it (ok) or the call raised, and the status of the record the
\* gateway answered with (resp).
Call(api, id, amount, currency) ==
    [api |-> api, id |-> id, amount |-> amount, currency |-> currency, ok |-> TRUE,
     resp |-> Undefined]

Failed(call) == [call EXCEPT !.ok = FALSE]
Answered(call, status) == [call EXCEPT !.resp = status]

\* The data object of a handler input: the stored session data plus the
\* client-supplied confirmation fields.
Data(sess, orderRef, paymentRef, signature) ==
    [id |-> sess.id,
     razorpay_order_id |-> orderRef,
     razorpay_payment_id |-> paymentRef,
     razorpay_signature |-> signature,
     payment_details |-> sess.payment_details]

SessionData(sess) == Data(sess, Undefined, Undefined, Undefined)

\* data?.payment_details?.id
HasPaymentId(data) == Truthy(data.payment_details.id)

\* A handler's completion: a returned value or a raised MedusaError.
Returned(op, fields) == [op |-> op, outcome |-> "return", out |-> fields]
Thrown(op, type, message) ==
    [op |-> op, outcome |-> "throw", out |-> [type |-> type, message |-> message]]

\* What a handler run yields: its completion, the gateway calls it issued
\* and the gateway state it leaves behind.
Run(res, cs, orders, pay) == [res |-> res, calls |-> cs, orders |-> orders, pay |-> pay]

(* ---------------------------------------------------------------- gateway *)

\* client_.payments.fetch(id): succeeds when the request goes through and
\* the gateway knows the payment.
FetchOk(id, gwOk, pay) == gwOk /\ id = pay.id /\ pay.status # "none"

\* The order status the gateway reports for an order, by the state of the
\* payment made against it.
OrderStatus(orderId, pay) ==
    IF pay.status = "none" \/ pay.order_id # orderId THEN "created"
    ELSE IF pay.status \in {"captured", "refunded"} THEN "paid"
    ELSE "attempted"

\* The payment after a successful refund of `amount` minor units: a full
\* refund moves it to refunded, a partial one leaves its status.
Refunded(pay, amount) ==
    IF ~amount.nan /\ amount.val >= pay.amount
    THEN [pay EXCEPT !.status = "refunded"] ELSE pay

(* -------------------------------------------------------------- verifiers *)

verifySignature(payload, signature) ==
    LET expectedSignature == Hmac(key_secret, payload)
    IN expectedSignature = signature

verifyWebhookSignature(payload, signature) ==
    IF ~Truthy(webhook_secret) THEN FALSE
    ELSE LET expectedSignature == Hmac(webhook_secret, payload)
         IN expectedSignature = signature

(* --------------------------------------------------------- initiatePayment *)

\* currency_code.toUpperCase()
toUpperCase(c) ==
    CASE c = "inr" -> "INR"
      [] c = "usd" -> "USD"
      [] OTHER -> c

\* The catch block of initiatePayment: log and raise.
initiateCatch(cs) ==
    Run(Thrown("initiatePayment", "UNEXPECTED_STATE", "Failed to initiate Razorpay payment"),
        cs, gwOrders, gwPay)

initiatePayment(inp, gwOk) ==
    LET paymentAmount == toMinorUnits(inp.amount)
        orderPayload == Call("orders.create", Undefined, paymentAmount,
                             toUpperCase(inp.currency_code))
        razorpayOrder == [id |-> OrderId(gwOrders + 1), amount |-> paymentAmount,
                          currency |-> orderPayload.currency, status |-> "created"]
    IN IF gwOk
       THEN Run(Returned("initiatePayment", [id |-> razorpayOrder.id, data |-> razorpayOrder]),
                <<Answered(orderPayload, razorpayOrder.status)>>, gwOrders + 1, gwPay)
       ELSE initiateCatch(<<Failed(orderPayload)>>)

(* -------------------------------------------------------- authorizePayment *)

\* The catch block of authorizePayment: log and return status error.
authorizeCatch(data, cs, message) ==
    Run(Returned("authorizePayment",
                 [status |-> "error", data |-> data, error |-> message]),
        cs, gwOrders, gwPay)

\* Variant of authorizeInvalidSignature in which the payment was fetched
\* before the signature was looked at.
authorizeInvalidSignature_fetchFirst(data) ==
    Run(Returned("authorizePayment",
                 [status |-> "error", data |-> data, error |-> "Invalid payment signature"]),
        <<Call("payments.fetch", data.razorpay_payment_id, NoAmount, Undefined)>>,
        gwOrders, gwPay)

\* The branch taken when the signature does not verify.
authorizeInvalidSignature(data) ==
    Run(Returned("authorizePayment",
                 [status |-> "error", data |-> data, error |-> "Invalid payment signature"]),
        <<>>, gwOrders, gwPay)

\* The status authorizePayment derives from the fetched payment.
authorizeStatus(payment) ==
    IF payment.status = "authorized" \/ payment.status = "captured"
    THEN (IF payment.status = "captured" THEN "captured" ELSE "authorized")
    ELSE "pending"

\* The part of authorizePayment that runs once the signature has verified.
authorizeFetch(data, paymentId, gwOk) ==
    LET fetch == Call("payments.fetch", paymentId, NoAmount, Undefined)
    IN IF ~FetchOk(paymentId, gwOk, gwPay)
       THEN authorizeCatch(data, <<Failed(fetch)>>, "gateway error")
       ELSE LET payment == gwPay
            IN Run(Returned("authorizePayment",
                            [status |-> authorizeStatus(payment),
                             data |-> [data EXCEPT !.payment_details = payment],
                             error |-> Undefined]),
                   <<Answered(fetch, payment.status)>>, gwOrders, gwPay)

authorizePayment(inp, gwOk) ==
    LET data == inp.data
    IN IF Truthy(data.razorpay_payment_id) /\ Truthy(data.razorpay_signature)
       THEN LET orderId == data.razorpay_order_id
                paymentId == data.razorpay_payment_id
                signature == data.razorpay_signature
                payload == Str(orderId) \o "|" \o Str(paymentId)
                isValid == verifySignature(payload, signature)
            IN IF ~isValid
               THEN authorizeInvalidSignature(data)
               ELSE authorizeFetch(data, paymentId, gwOk)
       ELSE Run(Returned("authorizePayment",
                         [status |-> "pending", data |-> data, error |-> Undefined]),
                <<>>, gwOrders, gwPay)

(* ---------------------------------------------------------- capturePayment *)

\* client_.payments.capture(id, amount): the gateway captures a payment it
\* knows and that is authorized.
CaptureOk(id, gwOk, pay) == gwOk /\ id = pay.id /\ pay.status = "authorized"

\* The catch block of capturePayment: log and raise.
captureCatch(cs, message) ==
    Run(Thrown("capturePayment", "UNEXPECTED_STATE",
               "Failed to capture Razorpay payment: " \o message),
        cs, gwOrders, gwPay)

\* Variant of captureMissingPayment that returns the data untouched
\* instead of raising.
captureMissingPayment_silent(data) ==
    Run(Returned("capturePayment", [data |-> data]), <<>>, gwOrders, gwPay)

\* The validation at the head of capturePayment: the INVALID_DATA error it
\* raises is caught by the handler's own catch block and raised again.
captureMissingPayment(data) ==
    captureCatch(<<>>, "Payment ID is required to capture payment")

capturePayment(inp, gwOk) ==
    LET data == inp.data
    IN IF ~HasPaymentId(data)
       THEN captureMissingPayment(data)
       ELSE LET paymentId == data.payment_details.id
                capture == Call("payments.capture", paymentId,
                                Minor(data.payment_details.amount), Undefined)
            IN IF ~CaptureOk(paymentId, gwOk, gwPay)
               THEN captureCatch(<<Failed(capture)>>, "gateway error")
               ELSE LET capturedPayment == [gwPay EXCEPT !.status = "captured"]
                    IN Run(Returned("capturePayment",
                                    [data |-> [data EXCEPT !.payment_details = capturedPayment]]),
                           <<Answered(capture, capturedPayment.status)>>, gwOrders,
                           capturedPayment)

(* ----------------------------------------------------------- cancelPayment *)

\* client_.payments.refund(id, {amount}): the gateway refunds a payment it
\* knows and that holds money (authorized or captured).
RefundOk(id, gwOk, pay) ==
    gwOk /\ id = pay.id /\ pay.status \in {"authorized", "captured"}

\* Variant of cancelCatch that logs the error and returns normally.
cancelCatch_swallow(cs, pay) ==
    Run(Returned("cancelPayment",
                 [data |-> [id |-> session.id, razorpay_order_id |-> Undefined,
                            razorpay_payment_id |-> Undefined,
                            razorpay_signature |-> Undefined,
                            payment_details |-> session.payment_details]]),
        cs, gwOrders, pay)

\* The catch block of cancelPayment: log and raise.
cancelCatch(cs, pay) ==
    Run(Thrown("cancelPayment", "UNEXPECTED_STATE", "Failed to cancel Razorpay payment"),
        cs, gwOrders, pay)

\* Variant of cancelApplies without the test of the payment's status.
cancelApplies_anyStatus(data) == HasPaymentId(data)

\* The test for a payment to cancel: a payment record whose status is
\* authorized.
cancelApplies(data) ==
    HasPaymentId(data) /\ data.payment_details.status = "authorized"

\* Variant of cancelRefundRequest that sends no amount.
cancelRefundRequest_noAmount(data) ==
    Call("payments.refund", data.payment_details.id, NoAmount, Undefined)

\* The refund cancelPayment requests: the attached payment's full amount.
cancelRefundRequest(data) ==
    Call("payments.refund", data.payment_details.id, Minor(data.payment_details.amount),
         Undefined)

\* Variant of cancelUpdated that returns the data as it came in.
cancelUpdated_stale(data, updatedPayment) == data

\* The data cancelPayment returns after the refund: the input data with
\* the re-fetched payment in place of the attached one.
cancelUpdated(data, updatedPayment) ==
    [data EXCEPT !.payment_details = updatedPayment]

cancelPayment(inp, gwOk1, gwOk2) ==
    LET data == inp.data
    IN IF cancelApplies(data)
       THEN LET id == data.payment_details.id
                refund == cancelRefundRequest(data)
                fetch == Call("payments.fetch", id, NoAmount, Undefined)
            IN IF ~RefundOk(id, gwOk1, gwPay)
               THEN cancelCatch(<<Failed(refund)>>, gwPay)
               ELSE LET pay1 == Refunded(gwPay, refund.amount)
                    IN IF ~FetchOk(id, gwOk2, pay1)
                       THEN cancelCatch(<<refund, Failed(fetch)>>, pay1)
                       ELSE LET updatedPayment == pay1
                            IN Run(Returned("cancelPayment",
                                            [data |-> cancelUpdated(data, updatedPayment)]),
                                   <<refund, Answered(fetch, updatedPayment.status)>>,
                                   gwOrders, pay1)
       ELSE Run(Returned("cancelPayment", [data |-> data]), <<>>, gwOrders, gwPay)

(* ----------------------------------------------------------- refundPayment *)

\* The catch block of refundPayment: log and raise.
refundCatch(cs, message) ==
    Run(Thrown("refundPayment", "UNEXPECTED_STATE",
               "Failed to refund Razorpay payment: " \o message),
        cs, gwOrders, gwPay)

refundPayment(inp, gwOk) ==
    LET data == inp.data
        amount == inp.amount
    IN IF ~HasPaymentId(data)
       THEN refundCatch(<<>>, "Payment ID is required to refund payment")
       ELSE LET refundAmount == toMinorUnits(amount)
                refund == Call("payments.refund", data.payment_details.id, refundAmount,
                               Undefined)
            IN IF ~RefundOk(data.payment_details.id, gwOk, gwPay)
               THEN refundCatch(<<Failed(refund)>>, "gateway error")
               ELSE LET refundData == [id |-> "rfnd_1",
                                       payment_id |-> data.payment_details.id,
                                       amount |-> refundAmount]
                    IN Run(Returned("refundPayment",
                                    [data |-> data, refund_details |-> refundData]),
                           <<refund>>, gwOrders, Refunded(gwPay, refundAmount))

(* -------------------------------------------------------- getPaymentStatus *)

\* Variant of paymentStatusMap without the case for failed.
paymentStatusMap_noFailed(status) ==
    CASE status = "created" -> "pending"
      [] status = "authorized" -> "authorized"
      [] status = "captured" -> "captured"
      [] OTHER -> "pending"

\* The switch over payment.status.
paymentStatusMap(status) ==
    CASE status = "created" -> "pending"
      [] status = "authorized" -> "authorized"
      [] status = "captured" -> "captured"
      [] status = "failed" -> "error"
      [] OTHER -> "pending"

\* The tests on order.status.
orderStatusMap(status) ==
    IF status = "paid" THEN "captured"
    ELSE IF status = "attempted" THEN "authorized"
    ELSE "pending"

\* client_.orders.fetch(id): succeeds when the request goes through and the
\* gateway has created the order.
OrderFetchOk(id, gwOk) == gwOk /\ \E n \in 1..gwOrders : OrderId(n) = id

\* Variant of statusCatch that raises the error again, as the catch blocks
\* of the mutating handlers do.
statusCatch_rethrow(cs) ==
    Run(Thrown("getPaymentStatus", "UNEXPECTED_STATE",
               "Failed to get Razorpay payment status"),
        cs, gwOrders, gwPay)

\* The catch block of getPaymentStatus: log and return status error.
statusCatch(cs) ==
    Run(Returned("getPaymentStatus", [status |-> "error"]), cs, gwOrders, gwPay)

getPaymentStatus(inp, gwOk) ==
    LET data == inp.data
    IN IF HasPaymentId(data)
       THEN LET paymentId == data.payment_details.id
                fetch == Call("payments.fetch", paymentId, NoAmount, Undefined)
            IN IF ~FetchOk(paymentId, gwOk, gwPay)
               THEN statusCatch(<<Failed(fetch)>>)
               ELSE LET payment == gwPay
                    IN Run(Returned("getPaymentStatus",
                                    [status |-> paymentStatusMap(payment.status)]),
                           <<Answered(fetch, payment.status)>>, gwOrders, gwPay)
       ELSE IF Truthy(data.id)
       THEN LET fetch == Call("orders.fetch", data.id, NoAmount, Undefined)
            IN IF ~OrderFetchOk(data.id, gwOk)
               THEN statusCatch(<<Failed(fetch)>>)
               ELSE LET order == [id |-> data.id, status |-> OrderStatus(data.id, gwPay)]
                    IN Run(Returned("getPaymentStatus",
                                    [status |-> orderStatusMap(order.status)]),
                           <<Answered(fetch, order.status)>>, gwOrders, gwPay)
       ELSE Run(Returned("getPaymentStatus", [status |-> "pending"]), <<>>, gwOrders, gwPay)

(* ------------------------------------------------- getWebhookActionAndData *)

\* Variant of toMajorUnits without the division by 100.
toMajorUnits_unscaled(minor) == Num(minor * 1000)

\* new BigNumber(minor / 100): the amount in major units.
toMajorUnits(minor) == Num(minor * 10)

\* A missing entity (data.payload.payment or data.payload.refund absent).
NoEntity ==
    [present |-> FALSE, id |-> Undefined, order_id |-> Undefined,
     payment_id |-> Undefined, amount |-> 0, error_description |-> Undefined]

\* A WebhookActionResult with a data object.
WebhookResult(action, session_id, amount, message, error) ==
    Returned("getWebhookActionAndData",
             [action |-> action, has_data |-> TRUE, session_id |-> session_id,
              amount |-> amount, message |-> message, error |-> error])

\* Variant of WebhookNoData that reports the event as an error.
WebhookNoData_asFailed(action) ==
    Returned("getWebhookActionAndData",
             [action |-> "failed", has_data |-> TRUE, session_id |-> Undefined,
              amount |-> NaN, message |-> "Unsupported event", error |-> Undefined])

\* A WebhookActionResult without data.
WebhookNoData(action) ==
    Returned("getWebhookActionAndData",
             [action |-> action, has_data |-> FALSE, session_id |-> Undefined,
              amount |-> NaN, message |-> Undefined, error |-> Undefined])

\* The catch block of getWebhookActionAndData: log and return action failed.
webhookCatch ==
    WebhookResult("failed", Undefined, NaN, "Error processing webhook", Undefined)

\* Variant of webhookSignatureFailed that verifies only a signature that is
\* present and lets a webhook without the header through.
webhookSignatureFailed_headerOptional(headers, rawData) ==
    IF Truthy(webhook_secret)
    THEN LET signature == headers.x_razorpay_signature
         IN Truthy(signature) /\ ~verifyWebhookSignature(rawData, signature)
    ELSE FALSE

\* The signature gate: entered only when a webhook_secret is configured.
webhookSignatureFailed(headers, rawData) ==
    IF Truthy(webhook_secret)
    THEN LET signature == headers.x_razorpay_signature
         IN ~Truthy(signature) \/ ~verifyWebhookSignature(rawData, signature)
    ELSE FALSE

\* The switch over data.event; reading a property of a missing entity
\* raises a TypeError, which the catch block turns into action failed.
webhookDispatch(data) ==
    LET payment == data.payload.payment
        refund == data.payload.refund
    IN CASE data.event = "payment.authorized" ->
              IF ~payment.present THEN webhookCatch
              ELSE WebhookResult("authorized", payment.order_id,
                                 toMajorUnits(payment.amount), Undefined, Undefined)
         [] data.event = "payment.captured" ->
              IF ~payment.present THEN webhookCatch
              ELSE WebhookResult("captured", payment.order_id,
                                 toMajorUnits(payment.amount), Undefined, Undefined)
         [] data.event = "refund.processed" ->
              IF ~refund.present THEN webhookCatch
              ELSE WebhookResult("refunded", refund.payment_id,
                                 toMajorUnits(refund.amount), Undefined, Undefined)
         [] data.event = "payment.failed" ->
              IF ~payment.present THEN webhookCatch
              ELSE WebhookResult("failed", payment.order_id,
                                 toMajorUnits(payment.amount), Undefined,
                                 IF Truthy(payment.error_description)
                                 THEN payment.error_description ELSE "Payment failed")
         [] OTHER -> WebhookNoData("not_supported")

getWebhookActionAndData(payload) ==
    LET data == payload.data
        headers == payload.headers
        rawData == payload.rawData
    IN Run(IF webhookSignatureFailed(headers, rawData)
           THEN WebhookResult("failed", Undefined, NaN, "Invalid webhook signature", Undefined)
           ELSE webhookDispatch(data),
           <<>>, gwOrders, gwPay)

(* ----------------------------------------------------------------- inputs *)

\* Amounts passed to initiatePayment: 499.00, 10.504, -1.00, NaN, Infinity.
InitAmounts == {Num(499000), Num(10504), Num(-1000), NaN, Infinity}

\* Amounts passed to refundPayment: 499.00, 10.00, -1.00, NaN.
RefundAmounts == {Num(499000), Num(10000), Num(-1000), NaN}

Currencies == {"inr", "USD"}

\* Confirmation fields a client may send to authorizePayment.
CandidateOrderRefs == {OrderId(1), OrderId(2)}
CandidatePaymentRefs == {Undefined, PaymentId, UnknownPaymentId}
CandidateSignatures(orderRef, paymentRef) ==
    {Undefined, "", "forged",
     Hmac(key_secret, Str(orderRef) \o "|" \o Str(paymentRef)),
     Hmac(key_secret, OrderId(1) \o "|" \o PaymentId),
     Hmac("wrong_secret", Str(orderRef) \o "|" \o Str(paymentRef))}

\* Entities of webhook events.
PaymentEntities ==
    {[present |-> TRUE, id |-> PaymentId, order_id |-> OrderId(1), payment_id |-> Undefined,
      amount |-> 49900, error_description |-> "declined"],
     [present |-> TRUE, id |-> PaymentId, order_id |-> OrderId(2), payment_id |-> Undefined,
      amount |-> 1050, error_description |-> Undefined]}

RefundEntities ==
    {[present |-> TRUE, id |-> "rfnd_1", order_id |-> Undefined, payment_id |-> PaymentId,
      amount |-> 49900, error_description |-> Undefined],
     [present |-> TRUE, id |-> "rfnd_1", order_id |-> Undefined, payment_id |-> PaymentId,
      amount |-> 1005, error_description |-> Undefined]}

WebhookEvents ==
    {"payment.authorized", "payment.captured", "refund.processed", "payment.failed",
     "order.paid"}

\* Parsed webhook bodies: a payment event with a payment entity, a refund
\* event with a refund entity, or any event with neither.
WebhookBodies ==
    {[event |-> e, payload |-> [payment |-> p, refund |-> NoEntity]] :
        e \in WebhookEvents \ {"refund.processed"}, p \in PaymentEntities}
    \cup {[event |-> "refund.processed", payload |-> [payment |-> NoEntity, refund |-> r]] :
        r \in RefundEntities}
    \cup {[event |-> e, payload |-> [payment |-> NoEntity, refund |-> NoEntity]] :
        e \in WebhookEvents}

\* The raw request body a parsed body came from.
Serialize(data) ==
    data.event \o "{" \o Str(data.payload.payment.order_id) \o ","
      \o ToString(data.payload.payment.amount) \o ","
      \o Str(data.payload.refund.payment_id) \o ","
      \o ToString(data.payload.refund.amount) \o "}"

\* Values of the x-razorpay-signature header for a raw body: absent, signed
\* by the gateway, signed with another key, signed for another body.
SignatureHeaders(rawData) ==
    {Undefined, Hmac(WebhookSecret, rawData), Hmac(key_secret, rawData),
     Hmac(WebhookSecret, "order.paid{undefined,0,undefined,0}")}

(* ---------------------------------------------------------------- actions *)

NoInput == [op |-> "none"]
NoResult == [op |-> "none", outcome |-> "none", out |-> [status |-> Undefined]]

Init ==
    /\ webhook_secret \in {Undefined, WebhookSecret}
    /\ gwOrders = 0
    /\ gwPay = [id |-> PaymentId, status |-> "none", amount |-> 0, order_id |-> Undefined]
    /\ session = [id |-> Undefined, payment_details |-> NoRecord]
    /\ input = NoInput
    /\ calls = <<>>
    /\ result = NoResult

\* The effects of a handler run that are the same for every handler.
Complete(inp, run) ==
    /\ input' = inp
    /\ calls' = run.calls
    /\ result' = run.res
    /\ gwOrders' = run.orders
    /\ gwPay' = run.pay
    /\ UNCHANGED webhook_secret

\* The platform calls initiatePayment; the first order it obtains becomes
\* the data of the session.
InitiatePayment ==
    /\ gwOrders < MaxOrders
    /\ \E amount \in InitAmounts, cc \in Currencies, gwOk \in BOOLEAN :
        LET inp == [op |-> "initiatePayment", amount |-> amount, currency_code |-> cc,
                    data |-> SessionData(session)]
            run == initiatePayment(inp, gwOk)
        IN /\ Complete(inp, run)
           /\ session' = IF run.res.outcome = "return" /\ session.id = Undefined
                         THEN [session EXCEPT !.id = run.res.out.id]
                         ELSE session

\* The platform calls authorizePayment with the session data and the
\* confirmation fields the client sent, and stores the returned data.
AuthorizePayment ==
    \E o \in CandidateOrderRefs, p \in CandidatePaymentRefs, gwOk \in BOOLEAN :
      \E sig \in CandidateSignatures(o, p) :
        LET inp == [op |-> "authorizePayment", data |-> Data(session, o, p, sig)]
            run == authorizePayment(inp, gwOk)
        IN /\ Complete(inp, run)
           /\ session' = [session EXCEPT
                            !.payment_details = run.res.out.data.payment_details]

CapturePayment ==
    \E gwOk \in BOOLEAN :
        LET inp == [op |-> "capturePayment", data |-> SessionData(session)]
            run == capturePayment(inp, gwOk)
        IN /\ Complete(inp, run)
           /\ session' = IF run.res.outcome = "return"
                         THEN [session EXCEPT
                                 !.payment_details = run.res.out.data.payment_details]
                         ELSE session

CancelPayment ==
    \E gwOk1 \in BOOLEAN, gwOk2 \in BOOLEAN :
        LET inp == [op |-> "cancelPayment", data |-> SessionData(session)]
            run == cancelPayment(inp, gwOk1, gwOk2)
        IN /\ Complete(inp, run)
           /\ session' = IF run.res.outcome = "return"
                         THEN [session EXCEPT
                                 !.payment_details = run.res.out.data.payment_details]
                         ELSE session

\* A second cancelPayment call for the same session that runs beside the
\* previous one: the component does not coordinate them, so it is handed
\* the same data the previous call was handed (input.data), whatever that
\* call returned.  Each call sends its refund request first, so the order
\* in which the two calls' later requests reach the gateway does not change
\* what this one asks for.
CancelPaymentConcurrent ==
    /\ input.op = "cancelPayment"
    /\ \E gwOk1 \in BOOLEAN, gwOk2 \in BOOLEAN :
        LET inp == input
            run == cancelPayment(inp, gwOk1, gwOk2)
        IN /\ Complete(inp, run)
           /\ session' = IF run.res.outcome = "return"
                         THEN [session EXCEPT
                                 !.payment_details = run.res.out.data.payment_details]
                         ELSE session

RefundPayment ==
    \E amount \in RefundAmounts, gwOk \in BOOLEAN :
        LET inp == [op |-> "refundPayment", amount |-> amount, data |-> SessionData(session)]
            run == refundPayment(inp, gwOk)
        IN /\ Complete(inp, run)
           /\ UNCHANGED session

GetPaymentStatus ==
    \E gwOk \in BOOLEAN :
        LET inp == [op |-> "getPaymentStatus", data |-> SessionData(session)]
            run == getPaymentStatus(inp, gwOk)
        IN /\ Complete(inp, run)
           /\ UNCHANGED session

GetWebhookActionAndData ==
    \E data \in WebhookBodies :
      \E sig \in SignatureHeaders(Serialize(data)) :
        LET inp == [op |-> "getWebhookActionAndData", data |-> data,
                    headers |-> [x_razorpay_signature |-> sig],
                    rawData |-> Serialize(data)]
            run == getWebhookActionAndData(inp)
        IN /\ Complete(inp, run)
           /\ UNCHANGED session

\* The customer pays against one of the created orders: the gateway opens
\* the payment.
CustomerPays ==
    /\ gwPay.status = "none"
    /\ \E n \in 1..gwOrders :
        gwPay' = [gwPay EXCEPT !.status = "created", !.amount = PaymentAmount(n),
                                !.order_id = OrderId(n)]
    /\ UNCHANGED <<webhook_secret, gwOrders, session, input, calls, result>>

\* The gateway moves the payment on by itself: the bank authorizes or
\* declines it, an authorized payment is captured or refunded automatically,
\* a captured payment is refunded from the dashboard.
GatewayAdvance ==
    /\ \E s \in PaymentStatuses :
        /\ \/ gwPay.status = "created" /\ s \in {"authorized", "failed"}
           \/ gwPay.status = "authorized" /\ s \in {"captured", "refunded"}
           \/ gwPay.status = "captured" /\ s = "refunded"
        /\ gwPay' = [gwPay EXCEPT !.status = s]
    /\ UNCHANGED <<webhook_secret, gwOrders, session, input, calls, result>>

Next ==
    \/ InitiatePayment
    \/ AuthorizePayment
    \/ CapturePayment
    \/ CancelPayment
    \/ CancelPaymentConcurrent
    \/ RefundPayment
    \/ GetPaymentStatus
    \/ GetWebhookActionAndData
    \/ CustomerPays
    \/ GatewayAdvance

Spec == Init /\ [][Next]_vars

(* ----------------------------------------------------------------- claims *)

\* The confirmation signature of the last input is the HMAC of
\* "orderRef|paymentRef" under key_secret.
ConfirmSignatureValid ==
    input.data.razorpay_signature =
        Hmac(key_secret, Str(input.data.razorpay_order_id) \o "|"
                           \o Str(input.data.razorpay_payment_id))

\* The signature header of the last webhook is the HMAC of the raw body
\* under the configured webhook_secret.
WebhookSignatureValid ==
    /\ webhook_secret # Undefined
    /\ input.headers.x_razorpay_signature = Hmac(webhook_secret, input.rawData)

\* Some gateway call of the last handler invocation failed.
SomeCallFailed == \E i \in 1..Len(calls) : ~calls[i].ok

\* C1: with no webhook_secret configured, a webhook is never answered with
\* action authorized, captured or refunded, whatever its event type and
\* signature header.
C1_WebhookFailsClosedWithoutSecret ==
    (result.op = "getWebhookActionAndData" /\ ~Truthy(webhook_secret))
        => result.out.action \notin {"authorized", "captured", "refunded"}

\* C2: a confirm that carries a payment reference and a signature (any
\* string) that is not the HMAC of "orderRef|paymentRef" under key_secret
\* returns status error with the invalid-signature marker.
C2_TamperedSignatureIsError ==
    (/\ result.op = "authorizePayment"
     /\ Truthy(input.data.razorpay_payment_id)
     /\ input.data.razorpay_signature # Undefined
     /\ ~ConfirmSignatureValid)
        => (/\ result.out.status = "error"
            /\ result.out.error = "Invalid payment signature")

\* C3: authorizePayment issues a gateway call only after the signature has
\* verified; a confirm whose signature is not valid issues none.
C3_VerifyBeforeFetch ==
    (result.op = "authorizePayment" /\ ~ConfirmSignatureValid) => calls = <<>>

\* C3 witness: a confirm with a payment reference and a wrong, non-empty
\* signature was answered with status error without any gateway call.
C3_Witness ==
    /\ result.op = "authorizePayment"
    /\ Truthy(input.data.razorpay_payment_id)
    /\ Truthy(input.data.razorpay_signature)
    /\ ~ConfirmSignatureValid
    /\ result.out.status = "error"
    /\ calls = <<>>

\* C4: with webhook_secret configured, a webhook whose signature header is
\* missing or is not the HMAC of the raw body yields action failed, for
\* every event type.
C4_UnverifiedWebhookFails ==
    (/\ result.op = "getWebhookActionAndData"
     /\ Truthy(webhook_secret)
     /\ ~WebhookSignatureValid)
        => result.out.action = "failed"

\* C4 witness: with a secret configured, a payment.captured webhook that
\* carries its payment entity but no signature header was failed.
C4_Witness ==
    /\ result.op = "getWebhookActionAndData"
    /\ Truthy(webhook_secret)
    /\ ~WebhookSignatureValid
    /\ input.data.event = "payment.captured"
    /\ input.data.payload.payment.present
    /\ input.headers.x_razorpay_signature = Undefined
    /\ result.out.action = "failed"
    /\ result.out.message = "Invalid webhook signature"

\* C5: when authorizePayment verified the signature and fetched the
\* payment, the returned status is the StatusMapper table applied to the
\* fetched status: created -> pending, authorized -> authorized,
\* captured -> captured, failed -> error, anything else -> pending.
C5_ConfirmAppliesStatusMapper ==
    (/\ result.op = "authorizePayment"
     /\ calls # <<>>
     /\ ~SomeCallFailed)
        => (/\ calls[1].api = "payments.fetch"
            /\ result.out.status =
                 (CASE calls[1].resp = "created" -> "pending"
                    [] calls[1].resp = "authorized" -> "authorized"
                    [] calls[1].resp = "captured" -> "captured"
                    [] calls[1].resp = "failed" -> "error"
                    [] OTHER -> "pending"))

\* C6: getPaymentStatus never raises, and when its fetch succeeds the
\* status follows the table: for an attached payment created -> pending,
\* authorized -> authorized, captured -> captured, failed -> error; for an
\* order reference alone paid -> captured, attempted -> authorized,
\* created -> pending; any other value -> pending.
C6_GetStatusFollowsTable ==
    result.op = "getPaymentStatus" =>
        /\ result.outcome = "return"
        /\ (calls # <<>> /\ ~SomeCallFailed /\ Truthy(input.data.payment_details.id)) =>
              /\ calls[1].api = "payments.fetch"
              /\ result.out.status =
                   (CASE calls[1].resp = "created" -> "pending"
                      [] calls[1].resp = "authorized" -> "authorized"
                      [] calls[1].resp = "captured" -> "captured"
                      [] calls[1].resp = "failed" -> "error"
                      [] OTHER -> "pending")
        /\ (calls # <<>> /\ ~SomeCallFailed /\ ~Truthy(input.data.payment_details.id)) =>
              /\ calls[1].api = "orders.fetch"
              /\ result.out.status =
                   (CASE calls[1].resp = "paid" -> "captured"
                      [] calls[1].resp = "attempted" -> "authorized"
                      [] OTHER -> "pending")
        /\ calls = <<>> => result.out.status = "pending"

\* C6 witness: a poll of a session with an attached payment found the
\* gateway payment failed and reported error.
C6_Witness ==
    /\ result.op = "getPaymentStatus"
    /\ Truthy(input.data.payment_details.id)
    /\ calls # <<>> /\ ~SomeCallFailed
    /\ calls[1].resp = "failed"
    /\ result.out.status = "error"

\* The amount of the last input is negative or non-finite.
AmountInvalid == input.amount.kind # "num" \/ input.amount.milli < 0

\* C7: initiatePayment and refundPayment reject a negative or non-finite
\* amount by raising before any gateway call.
C7_InvalidAmountRejected ==
    (result.op \in {"initiatePayment", "refundPayment"} /\ AmountInvalid)
        => (result.outcome = "throw" /\ calls = <<>>)

\* C8: capturePayment on a session without an attached payment record
\* raises and issues no gateway call.
C8_CaptureWithoutPaymentRaises ==
    (result.op = "capturePayment" /\ ~Truthy(input.data.payment_details.id))
        => (result.outcome = "throw" /\ calls = <<>>)

\* C8 witness: capturePayment ran on a session that has an order but no
\* payment record, and raised.
C8_Witness ==
    /\ result.op = "capturePayment"
    /\ Truthy(input.data.id)
    /\ ~Truthy(input.data.payment_details.id)
    /\ result.outcome = "throw"
    /\ calls = <<>>

\* C9: a mutating handler one of whose gateway calls failed raises.
C9_MutatingGatewayFailureRaises ==
    (/\ result.op \in {"initiatePayment", "capturePayment", "cancelPayment",
                       "refundPayment"}
     /\ SomeCallFailed)
        => result.outcome = "throw"

\* C9 witness: cancelPayment refunded the payment, its re-fetch failed, and
\* it raised.
C9_Witness ==
    /\ result.op = "cancelPayment"
    /\ Len(calls) = 2
    /\ calls[1].api = "payments.refund" /\ calls[1].ok
    /\ calls[2].api = "payments.fetch" /\ ~calls[2].ok
    /\ result.outcome = "throw"

\* C10: getPaymentStatus, authorizePayment and getWebhookActionAndData
\* always return; a failed gateway call or a failed signature verification
\* comes back as status error, respectively action failed.
C10_PollingHandlersNeverRaise ==
    /\ result.op \in {"getPaymentStatus", "authorizePayment", "getWebhookActionAndData"}
         => result.outcome = "return"
    /\ (result.op \in {"getPaymentStatus", "authorizePayment"} /\ SomeCallFailed)
         => result.out.status = "error"
    /\ (/\ result.op = "authorizePayment"
        /\ Truthy(input.data.razorpay_payment_id)
        /\ Truthy(input.data.razorpay_signature)
        /\ ~ConfirmSignatureValid)
         => result.out.status = "error"
    /\ (/\ result.op = "getWebhookActionAndData"
        /\ Truthy(webhook_secret)
        /\ ~WebhookSignatureValid)
         => result.out.action = "failed"
    /\ (/\ result.op = "getWebhookActionAndData"
        /\ input.data.event = "refund.processed"
        /\ ~input.data.payload.refund.present
        /\ (Truthy(webhook_secret) => WebhookSignatureValid))
         => result.out.action = "failed"

\* C10 witness: a poll whose gateway fetch failed returned status error.
C10_Witness ==
    /\ result.op = "getPaymentStatus"
    /\ SomeCallFailed
    /\ result.outcome = "return"
    /\ result.out.status = "error"


\* The last input carries a payment record whose status is authorized.
InputAuthorized ==
    /\ Truthy(input.data.payment_details.id)
    /\ input.data.payment_details.status = "authorized"

\* C11: cancelPayment on a session whose attached payment is authorized
\* issues exactly one refund, for the attached payment and its full amount,
\* as its first gateway call, re-fetches the payment only after it, and
\* returns the re-fetched record in place of the attached one.
C11_CancelRefundsThenRefetches ==
    (result.op = "cancelPayment" /\ InputAuthorized) =>
        /\ Len(calls) \in {1, 2}
        /\ calls[1].api = "payments.refund"
        /\ calls[1].id = input.data.payment_details.id
        /\ calls[1].amount = Minor(input.data.payment_details.amount)
        /\ \A i \in 2..Len(calls) :
              /\ calls[i].api = "payments.fetch"
              /\ calls[i].id = input.data.payment_details.id
              /\ calls[1].ok
        /\ result.outcome = "return" =>
              /\ Len(calls) = 2
              /\ calls[2].ok
              /\ result.out.data.payment_details.status = calls[2].resp
              /\ result.out.data.payment_details.id = input.data.payment_details.id

\* C11 witness: a cancel of an authorized payment of 49900 refunded 49900,
\* re-fetched the payment and returned it as refunded.
C11_Witness ==
    /\ result.op = "cancelPayment"
    /\ InputAuthorized
    /\ input.data.payment_details.amount = 49900
    /\ Len(calls) = 2
    /\ calls[1].amount = Minor(49900)
    /\ result.outcome = "return"
    /\ result.out.data.payment_details.status = "refunded"

\* C12: cancelPayment on a session with no payment record, or with one
\* whose status is not authorized, issues no gateway call and returns the
\* data it was given.
C12_CancelOtherwiseNoOp ==
    (result.op = "cancelPayment" /\ ~InputAuthorized) =>
        /\ calls = <<>>
        /\ result.outcome = "return"
        /\ result.out.data = input.data

\* C12 witness: a cancel of a session whose attached payment is captured
\* returned without a gateway call.
C12_Witness ==
    /\ result.op = "cancelPayment"
    /\ input.data.payment_details.status = "captured"
    /\ calls = <<>>
    /\ result.outcome = "return"
    /\ result.out.data = input.data


\* The last webhook got past the signature gate: no secret is configured,
\* or its header is the HMAC of its raw body.
WebhookPassedGate == Truthy(webhook_secret) => WebhookSignatureValid

RecognizedEvents ==
    {"payment.authorized", "payment.captured", "refund.processed", "payment.failed"}

\* The entity the last webhook's event is about.
EventEntity ==
    IF input.data.event = "refund.processed"
    THEN input.data.payload.refund ELSE input.data.payload.payment

\* C13: a webhook that passes the signature check and carries an event
\* type outside the four recognized ones returns action not_supported
\* without data; it is not failed and the handler does not raise.
C13_UnrecognizedEventNotSupported ==
    (/\ result.op = "getWebhookActionAndData"
     /\ WebhookPassedGate
     /\ input.data.event \notin RecognizedEvents)
        => (/\ result.outcome = "return"
            /\ result.out.action = "not_supported"
            /\ ~result.out.has_data)

\* C13 witness: an order.paid webhook signed with the configured secret
\* was answered not_supported.
C13_Witness ==
    /\ result.op = "getWebhookActionAndData"
    /\ WebhookSignatureValid
    /\ input.data.event = "order.paid"
    /\ result.out.action = "not_supported"
    /\ ~result.out.has_data

\* C14: a webhook that passes the signature check and carries the entity
\* of its event is answered by event type: payment.authorized -> authorized,
\* payment.captured -> captured, refund.processed -> refunded,
\* payment.failed -> failed, with the entity's minor-unit amount divided by
\* 100 as amount (ten times the minor amount, in thousandths).
C14_DispatchAndAmount ==
    (/\ result.op = "getWebhookActionAndData"
     /\ WebhookPassedGate
     /\ input.data.event \in RecognizedEvents
     /\ EventEntity.present)
        => (/\ result.out.action =
                 (CASE input.data.event = "payment.authorized" -> "authorized"
                    [] input.data.event = "payment.captured" -> "captured"
                    [] input.data.event = "refund.processed" -> "refunded"
                    [] input.data.event = "payment.failed" -> "failed")
            /\ result.out.has_data
            /\ result.out.amount.kind = "num"
            /\ result.out.amount.milli = 10 * EventEntity.amount)

\* C14 witness: a signed refund.processed webhook for a refund of 1005
\* minor units was answered refunded with amount 10.05.
C14_Witness ==
    /\ result.op = "getWebhookActionAndData"
    /\ WebhookSignatureValid
    /\ input.data.event = "refund.processed"
    /\ input.data.payload.refund.amount = 1005
    /\ result.out.action = "refunded"
    /\ result.out.amount = Num(10050)


\* What C15 says of initiatePayment apart from the amount: one
\* orders.create call per invocation, the currency upper-cased, on success
\* the id of the order the gateway created, on failure a raised error.
InitiateOneOrder ==
    /\ Len(calls) = 1
    /\ calls[1].api = "orders.create"
    /\ calls[1].currency = (IF input.currency_code = "inr" THEN "INR" ELSE "USD")
    /\ calls[1].ok =>
          /\ result.outcome = "return"
          /\ result.out.id = OrderId(gwOrders)
          /\ result.out.data.id = result.out.id
    /\ ~calls[1].ok => result.outcome = "throw"

\* C15 as stated: initiatePayment issues exactly one orders.create, with
\* amount equal to 100 times the major-unit amount and the currency
\* upper-cased; on success it returns the created order's id, on failure it
\* raises.
C15_InitiateExactAmount ==
    result.op = "initiatePayment" =>
        /\ InitiateOneOrder
        /\ input.amount.kind = "num" =>
              (~calls[1].amount.nan /\ 10 * calls[1].amount.val = input.amount.milli)

\* C15 amended: as C15, with the amount being 100 times the major-unit
\* amount rounded to the nearest integer, and NaN for a non-finite amount.
C15_InitiateRoundedAmount ==
    result.op = "initiatePayment" =>
        /\ InitiateOneOrder
        /\ input.amount.kind = "num" =>
              /\ ~calls[1].amount.nan
              /\ 10 * calls[1].amount.val - input.amount.milli \in -5..5
        /\ input.amount.kind # "num" => calls[1].amount.nan

\* C15 witness: initiatePayment(10.504, "inr") created an order of 1050
\* minor units in INR and returned its id.
C15_Witness ==
    /\ result.op = "initiatePayment"
    /\ input.amount = Num(10504)
    /\ input.currency_code = "inr"
    /\ calls[1].amount = Minor(1050)
    /\ calls[1].currency = "INR"
    /\ result.outcome = "return"
    /\ result.out.id = OrderId(2)


\* C17: once getPaymentStatus has reported authorized or captured for the
\* session, the next getPaymentStatus poll of the session does not report
\* pending, whatever happened to the payment at the gateway in between.
C17_StatusNeverBackToPending ==
    [][(/\ result.op = "getPaymentStatus"
        /\ result.out.status \in {"authorized", "captured"}
        /\ GetPaymentStatus)
          => result'.out.status # "pending"]_vars


\* The signature the gateway hands to the customer who paid: it covers the
\* payment's own order and the payment id.
IssuedSignature(payment) ==
    Hmac(key_secret, Str(payment.order_id) \o "|" \o Str(payment.id))

\* C18: authorizePayment returns authorized or captured only when the
\* verified signature covers the session's own order reference (data.id,
\* the order id initiatePayment returned) together with the candidate
\* payment reference.  The case examined is a signature the gateway really
\* issued for the payment that was fetched.
C18_SignatureCoversOwnOrder ==
    (/\ result.op = "authorizePayment"
     /\ result.out.status \in {"authorized", "captured"}
     /\ input.data.razorpay_signature =
            IssuedSignature(result.out.data.payment_details))
        => input.data.razorpay_signature =
             Hmac(key_secret, Str(input.data.id) \o "|"
                                \o Str(input.data.razorpay_payment_id))

\* C20: for every recognized event carrying its entity, the session_id
\* getWebhookActionAndData returns is a gateway order id, the kind of
\* reference initiatePayment returned for the session.
C20_WebhookSessionIsOrderId ==
    (/\ result.op = "getWebhookActionAndData"
     /\ WebhookPassedGate
     /\ input.data.event \in RecognizedEvents
     /\ EventEntity.present)
        => result.out.session_id \in CandidateOrderRefs


====
